---- MODULE Spec2Model ----
(***************************************************************************)
(* Model of the Sourcegraph MCP tool-serving orchestrator                  *)
(* (src/src/server.py, class SourcegraphMCPServer).                        *)
(*                                                                         *)
(* State: the shutdown flag, the installed signal handlers, the tool and   *)
(* route registries, the two transport listener tasks awaited by           *)
(* asyncio.gather, the position of run(), and the tool invocations that    *)
(* are in flight.  A tool invocation advances in the segments between its  *)
(* await points; signals are delivered between any two segments.           *)
(***************************************************************************)
EXTENDS Integers, Sequences, FiniteSets, TLC

(***************************************************************************)
(* Bounds of the model.                                                    *)
(***************************************************************************)
\* How far below MinResults and above MaxResults the limit inputs reach.
LimitSpan == 1

(***************************************************************************)
(* Program constants.                                                      *)
(***************************************************************************)
MinResults == 1
MaxResults == 100
DefaultLimit == 30

Signals == {"SIGINT", "SIGTERM"}
Listeners == {"streamable-http", "sse"}
LimitInputs ==
    ((MinResults - LimitSpan)..MinResults) \cup {DefaultLimit}
        \cup (MaxResults..(MaxResults + LimitSpan))
Objectives == {"refactor auth", "find usages"}
Contents == {"file text"}
RawResults == {<<7, 8, 9>>}
FormattedResults == {<<70, 80, 90>>}
\* Exceptions a backend call can raise: the class each handler's first
\* except clause names, and one that only "except Exception" matches.
BackendErrors(fn) ==
    IF fn = "get_content" THEN {"ValueError", "Exception"} ELSE {"HTTPError", "Exception"}

\* The (function, name) pairs of _register_tools, in registration order.
ToolTable == <<"search", "search_prompt_guide", "fetch_content">>
ToolNames == {ToolTable[k] : k \in 1..Len(ToolTable)}
HealthRoutes == <<"/health", "/ready">>

ShutdownMessage == "Server is shutting down"
InvalidArgumentsMessage == "Invalid arguments: path or repository does not exist"
FetchErrorMessage == "Error fetching content"
UnexpectedFetchMessage == "error fetching content"
GuideErrorMessage == "Error generating search guide"
HttpSearchPrefix == "HTTP error during search: "
UnexpectedSearchPrefix == "Unexpected error during search: "
FinalLogMessage == "Server has shut down."

codesearch_guide == "codesearch guide"

\* The values SRC_ENDPOINT can have in the environment ("unset" when the
\* variable is not set) and the value of the optional SRC_ACCESS_TOKEN.
Endpoints == {"unset", "", "https://example.test"}
Token == ""

\* An attribute of self: not set, set to None, or a constructed client.
Handles == {"absent", "None", "client"}
OrgGuides == {"", "org guide"}

(***************************************************************************)
(* Values.  A tool result is a string or a list; the tag keeps the two     *)
(* apart.  A handler outcome is a returned value or a raised exception.    *)
(***************************************************************************)
StrValue(s) == [ty |-> "str", str |-> s, list |-> <<>>]
ListValue(l) == [ty |-> "list", str |-> "", list |-> l]
NoValue == [ty |-> "none", str |-> "", list |-> <<>>]

Return(v) == [kind |-> "return", exc |-> "none", msg |-> "", val |-> v]
Raise(e, m) == [kind |-> "raise", exc |-> e, msg |-> m, val |-> NoValue]
NoOutcome == [kind |-> "none", exc |-> "none", msg |-> "", val |-> NoValue]

\* How a backend call ended: with a value, or with an exception.
Ok(v) == [ok |-> TRUE, exc |-> "none", val |-> v]
Err(e) == [ok |-> FALSE, exc |-> e, val |-> NoValue]
NoCall == [ok |-> FALSE, exc |-> "none", val |-> NoValue]

\* Every exception class of the model derives from Exception.
IsInstance(exc, cls) == cls = "Exception" \/ exc = cls

Min(a, b) == IF a <= b THEN a ELSE b
Max(a, b) == IF a >= b THEN a ELSE b

VARIABLES
    shutdown_requested,  \* self._shutdown_requested
    handlers,            \* signals whose handler run() has installed
    tools,               \* names registered with self.server.tool, in order
    routes,              \* custom routes registered, in order
    listener,            \* state of each transport listener task
    runState,            \* position of run()
    awaited,             \* how the await of _run_server ended
    runOutcome,          \* how run() ended
    log,                 \* messages logged by run()
    org_guide,           \* self.org_guide
    environ,             \* the process environment read by ServerConfig
    main_error,          \* the message of the error that ended main() early
    config,              \* self.config
    search_client,       \* self.search_client
    content_fetcher,     \* self.content_fetcher
    search_failed,       \* the transport on which a search last failed
    inv                  \* the request in flight on each transport

vars == <<shutdown_requested, handlers, tools, routes, listener,
          runState, awaited, runOutcome, log, org_guide, environ, main_error,
          config, search_client, content_fetcher, search_failed, inv>>

\* What main() and __init__ bind and nothing changes afterwards.
selfVars == <<org_guide, environ, main_error, config, search_client, content_fetcher>>

orchVars == <<handlers, tools, routes, listener, runState, awaited, runOutcome, log>>

\* JSONResponse(content, status_code=200): the status code and the keys of
\* the body, empty for a key the body does not have.
JSONResponse(body, code) ==
    [status_code |-> code, status |-> body.status, service |-> body.service,
     reason |-> body.reason, backend |-> body.backend]
NoResponse ==
    [status_code |-> 0, status |-> "", service |-> "", reason |-> "", backend |-> ""]

\* An invocation: the tool and its arguments, the flag when the registered
\* function was called (startFlag), what the raw handler's shutdown check
\* read (seen), the handler's local num_results, the backend calls it
\* dispatched, how the last backend call ended, the raw handler's
\* outcome, the registered function's outcome, and the flag when it ended.
\* A request to a custom route occupies its transport in the same way, with
\* the route's path as tool and the response in http.
IdleInv ==
    [pc |-> "idle", tool |-> "none", limit |-> 0, objective |-> "",
     startFlag |-> FALSE, seen |-> "unchecked", num_results |-> 0,
     calls |-> <<>>, backend |-> NoCall,
     raw |-> NoOutcome, end |-> NoOutcome, flagAtEnd |-> FALSE,
     http |-> NoResponse]


(***************************************************************************)
(* Raw tool handlers, one operator per segment between await points.       *)
(* A segment ends by returning, raising, or awaiting a backend call that   *)
(* asyncio.to_thread runs off the event loop.                              *)
(***************************************************************************)
Await(f, n) == [kind |-> "await", fn |-> f, limit |-> n]

ShutdownCheck(flag) == flag

\* Mutant of clamp: the upper bound is not applied.
clamp_no_upper(limit) == Max(MinResults, limit)

\* search, line 81.
clamp(limit) == Min(Max(MinResults, limit), MaxResults)

\* Mutant of fetch_content_entry: the backend call is dispatched without
\* looking at the flag.
fetch_content_entry_unchecked(flag) == Await("get_content", 0)

\* fetch_content up to its await (lines 62-67).
fetch_content_entry(flag) ==
    IF ShutdownCheck(flag)
    THEN Raise("ServerShutdownError", ShutdownMessage)
    ELSE Await("get_content", 0)

\* Mutant of fetch_content_resume: the generic except clause comes first.
fetch_content_resume_generic_first(out) ==
    IF out.ok THEN Return(out.val)
    ELSE Raise("ContentFetchError", FetchErrorMessage)

\* fetch_content after the backend call (lines 67-74).
fetch_content_resume(out) ==
    IF out.ok THEN Return(out.val)
    ELSE IF IsInstance(out.exc, "ValueError")
         THEN Raise("ContentFetchError", InvalidArgumentsMessage)
         ELSE Raise("ContentFetchError", FetchErrorMessage)

\* Mutant of search_entry: the shutdown check is missing.
search_entry_unchecked(flag, limit) == Await("search", clamp(limit))

\* search up to its first await (lines 77-85).
search_entry(flag, limit) ==
    IF ShutdownCheck(flag)
    THEN Raise("ServerShutdownError", ShutdownMessage)
    ELSE Await("search", clamp(limit))

\* The except clauses of search (lines 88-93).
search_except(exc) ==
    IF IsInstance(exc, "HTTPError")
    THEN Raise("SearchError", HttpSearchPrefix \o exc)
    ELSE Raise("SearchError", UnexpectedSearchPrefix \o exc)

\* Mutant of search_resume: a failed backend search is dispatched again.
search_resume_retry(out, num_results) ==
    IF out.ok THEN Await("format_results", num_results)
    ELSE Await("search", num_results)

\* search after search_client.search returned (lines 85-86).
search_resume(out, num_results) ==
    IF out.ok THEN Await("format_results", num_results)
    ELSE search_except(out.exc)

\* search after search_client.format_results returned (lines 86-87).
format_resume(out) ==
    IF out.ok THEN Return(out.val) ELSE search_except(out.exc)

\* "".join(prompt_parts), lines 100-111.
InstructionLine(objective) ==
    "\nGiven this guide create a Sourcegraph query for " \o objective
        \o " and call the search tool accordingly."

\* Mutant of prompt_parts: the separator after the organization guide is
\* not appended.
prompt_parts_no_separator(org, objective) ==
    (IF org # "" THEN <<org>> ELSE <<>>)
        \o <<codesearch_guide, InstructionLine(objective)>>

prompt_parts(org, objective) ==
    (IF org # "" THEN <<org, "\n\n">> ELSE <<>>)
        \o <<codesearch_guide, InstructionLine(objective)>>

RECURSIVE Join(_)
Join(parts) == IF parts = <<>> THEN "" ELSE Head(parts) \o Join(Tail(parts))

search_prompt_guide(flag, org, objective) ==
    IF ShutdownCheck(flag)
    THEN Raise("ServerShutdownError", ShutdownMessage)
    ELSE Return(StrValue(Join(prompt_parts(org, objective))))

(***************************************************************************)
(* The registered functions: the except clauses of the safe wrappers.      *)
(***************************************************************************)
\* _safe_fetch_content, lines 113-123.
safe_fetch_content(raw) ==
    IF raw.kind = "return" THEN raw
    ELSE IF IsInstance(raw.exc, "ServerShutdownError") THEN Return(StrValue(""))
    ELSE IF IsInstance(raw.exc, "ContentFetchError") THEN Return(StrValue(raw.msg))
    ELSE IF IsInstance(raw.exc, "Exception") THEN Return(StrValue(UnexpectedFetchMessage))
    ELSE raw

\* Mutant of safe_search: only ServerShutdownError is caught.
safe_search_shutdown_only(raw) ==
    IF raw.kind = "return" THEN raw
    ELSE IF IsInstance(raw.exc, "ServerShutdownError") THEN Return(ListValue(<<>>))
    ELSE raw

\* _safe_search, lines 125-136.
safe_search(raw) ==
    IF raw.kind = "return" THEN raw
    ELSE IF IsInstance(raw.exc, "ServerShutdownError") THEN Return(ListValue(<<>>))
    ELSE IF IsInstance(raw.exc, "SearchError") THEN Return(ListValue(<<>>))
    ELSE IF IsInstance(raw.exc, "Exception") THEN Return(ListValue(<<>>))
    ELSE raw

\* Mutant of safe_search_prompt_guide: ServerShutdownError is not caught
\* apart from the other exceptions.
safe_search_prompt_guide_generic(raw) ==
    IF raw.kind = "return" THEN raw
    ELSE IF IsInstance(raw.exc, "Exception") THEN Return(StrValue(GuideErrorMessage))
    ELSE raw

\* _safe_search_prompt_guide, lines 138-146.
safe_search_prompt_guide(raw) ==
    IF raw.kind = "return" THEN raw
    ELSE IF IsInstance(raw.exc, "ServerShutdownError") THEN Return(StrValue(ShutdownMessage))
    ELSE IF IsInstance(raw.exc, "Exception") THEN Return(StrValue(GuideErrorMessage))
    ELSE raw

\* The function _register_tools binds to each tool name (lines 150-154).
SafeWrapper(tool, raw) ==
    CASE tool = "search" -> safe_search(raw)
      [] tool = "search_prompt_guide" -> safe_search_prompt_guide(raw)
      [] tool = "fetch_content" -> safe_fetch_content(raw)

(***************************************************************************)
(* ServerConfig (config.py).  os.getenv gives None for a key that is not   *)
(* set, written "unset" here.                                              *)
(***************************************************************************)
getenv(env, key) == env[key]

\* Python's "not value" for None and for a string.
Falsy(value) == value \in {"unset", ""}

\* Mutant of get_required_env: only a key that is not set is refused.
get_required_env_unset_only(env, key) ==
    LET value == getenv(env, key)
    IN IF value = "unset"
       THEN Raise("ValueError", "Required environment variable " \o key \o " is not set")
       ELSE Return(StrValue(value))

\* ServerConfig._get_required_env, config.py lines 12-17.
get_required_env(env, key) ==
    LET value == getenv(env, key)
    IN IF Falsy(value)
       THEN Raise("ValueError", "Required environment variable " \o key \o " is not set")
       ELSE Return(StrValue(value))

\* self.config before ServerConfig() has returned.
NoConfig == [sourcegraph_endpoint |-> "unset", sourcegraph_token |-> "unset"]

(***************************************************************************)
(* The custom routes of _register_health_endpoints.  Neither handler       *)
(* awaits, so each runs in one step of the event loop.  The except clause  *)
(* of readiness_check (lines 183-185) is not reachable: hasattr and        *)
(* "is None" do not raise.                                                 *)
(***************************************************************************)
\* health_check, lines 164-166.
health_check ==
    JSONResponse([status |-> "ok", service |-> "sourcegraph-mcp",
                  reason |-> "", backend |-> ""], 200)

Unavailable(handle) == handle \in {"absent", "None"}

\* Mutant of readiness_check: the content fetcher is looked at first.
readiness_check_fetcher_first(sc, cf) ==
    IF Unavailable(cf)
    THEN JSONResponse([status |-> "not_ready", service |-> "",
                       reason |-> "content_fetcher_unavailable", backend |-> ""], 503)
    ELSE IF Unavailable(sc)
    THEN JSONResponse([status |-> "not_ready", service |-> "",
                       reason |-> "search_client_unavailable", backend |-> ""], 503)
    ELSE JSONResponse([status |-> "ready", service |-> "sourcegraph-mcp",
                       reason |-> "", backend |-> "sourcegraph"], 200)

\* readiness_check, lines 168-182, reading self.search_client (sc) and
\* self.content_fetcher (cf).
readiness_check(sc, cf) ==
    IF Unavailable(sc)
    THEN JSONResponse([status |-> "not_ready", service |-> "",
                       reason |-> "search_client_unavailable", backend |-> ""], 503)
    ELSE IF Unavailable(cf)
    THEN JSONResponse([status |-> "not_ready", service |-> "",
                       reason |-> "content_fetcher_unavailable", backend |-> ""], 503)
    ELSE JSONResponse([status |-> "ready", service |-> "sourcegraph-mcp",
                       reason |-> "", backend |-> "sourcegraph"], 200)

\* Mutant of Route: every custom route is answered by readiness_check.
Route_readiness_only(route, sc, cf) == readiness_check(sc, cf)

\* The handler custom_route binds to each path (lines 163 and 168).
Route(route, sc, cf) ==
    CASE route = "/health" -> health_check
      [] route = "/ready" -> readiness_check(sc, cf)

(***************************************************************************)
(* __init__: the flag is false, nothing is registered, no listener runs.   *)
(* _load_prompts leaves org_guide empty when the optional key is absent.   *)
(***************************************************************************)
Init ==
    /\ shutdown_requested = FALSE
    /\ handlers = {}
    /\ tools = <<>>
    /\ routes = <<>>
    /\ listener = [l \in Listeners |-> "unstarted"]
    /\ runState = "Constructed"
    /\ awaited = "pending"
    /\ runOutcome = "none"
    /\ log = <<>>
    /\ org_guide \in OrgGuides
    /\ environ = [SRC_ENDPOINT |-> "https://example.test"]
    /\ main_error = ""
    /\ config = [sourcegraph_endpoint |-> "https://example.test",
                 sourcegraph_token |-> Token]
    /\ search_client = "client"
    /\ content_fetcher = "client"
    /\ search_failed = "none"
    /\ inv = [l \in Listeners |-> IdleInv]

(***************************************************************************)
(* main() (lines 221-224) before run(): ServerConfig() reads the           *)
(* environment, then SourcegraphMCPServer(config) builds the clients and   *)
(* loads the prompts.  An error of ServerConfig() ends main().             *)
(***************************************************************************)
BootInit ==
    /\ shutdown_requested = FALSE
    /\ handlers = {}
    /\ tools = <<>>
    /\ routes = <<>>
    /\ listener = [l \in Listeners |-> "unstarted"]
    /\ runState = "Starting"
    /\ awaited = "pending"
    /\ runOutcome = "none"
    /\ log = <<>>
    /\ org_guide = ""
    /\ environ \in [SRC_ENDPOINT : Endpoints]
    /\ main_error = ""
    /\ config = NoConfig
    /\ search_client = "absent"
    /\ content_fetcher = "absent"
    /\ search_failed = "none"
    /\ inv = [l \in Listeners |-> IdleInv]

\* config = ServerConfig(), line 222.
LoadConfig ==
    /\ runState = "Starting"
    /\ LET endpoint == get_required_env(environ, "SRC_ENDPOINT")
       IN IF endpoint.kind = "raise"
          THEN /\ runState' = "ConfigError"
               /\ main_error' = endpoint.msg
               /\ config' = config
          ELSE /\ runState' = "Configured"
               /\ main_error' = main_error
               /\ config' = [sourcegraph_endpoint |-> endpoint.val.str,
                             sourcegraph_token |-> Token]
    /\ UNCHANGED <<shutdown_requested, handlers, tools, routes, listener,
                   awaited, runOutcome, log, org_guide, environ,
                   search_client, content_fetcher, search_failed, inv>>

\* server = SourcegraphMCPServer(config), line 223: __init__, lines 26-32.
Construct ==
    /\ runState = "Configured"
    /\ shutdown_requested' = FALSE
    /\ search_client' = "client"
    /\ content_fetcher' = "client"
    /\ org_guide' \in OrgGuides
    /\ runState' = "Constructed"
    /\ UNCHANGED <<handlers, tools, routes, listener, awaited, runOutcome, log,
                   environ, main_error, config, search_failed, inv>>

(***************************************************************************)
(* signal_handler (lines 56-59): its only effect is to set the flag.       *)
(***************************************************************************)
\* Mutant of signal_handler: a second signal clears the flag.
signal_handler_toggle(flag) == ~flag

signal_handler(flag) == TRUE

Signal(sig) ==
    /\ sig \in handlers
    /\ runState \notin {"Stopped", "Aborted"}
    /\ shutdown_requested' = signal_handler(shutdown_requested)
    /\ UNCHANGED <<orchVars, selfVars, search_failed, inv>>

(***************************************************************************)
(* run(), lines 201-218, and _run_server, lines 187-199.                   *)
(***************************************************************************)
\* Lines 203-204.
InstallSignalHandlers ==
    /\ runState = "Constructed"
    /\ handlers' = Signals
    /\ runState' = "Registering"
    /\ UNCHANGED <<shutdown_requested, tools, routes, listener,
                   awaited, runOutcome, log, selfVars, search_failed, inv>>

\* Line 206, _register_tools: the loop registers the tools in order; a
\* registration that raises ends run() outside its try statement.
RegisterTools ==
    /\ runState = "Registering"
    /\ \E n \in 0..Len(ToolTable) :
        /\ tools' = SubSeq(ToolTable, 1, n)
        /\ IF n = Len(ToolTable)
           THEN runState' = "ToolsRegistered" /\ runOutcome' = runOutcome
           ELSE runState' = "Aborted" /\ runOutcome' = "raised"
    /\ UNCHANGED <<shutdown_requested, handlers, routes, listener,
                   awaited, log, selfVars, search_failed, inv>>

\* Line 207, _register_health_endpoints.
RegisterHealthEndpoints ==
    /\ runState = "ToolsRegistered"
    /\ \E n \in 0..Len(HealthRoutes) :
        /\ routes' = SubSeq(HealthRoutes, 1, n)
        /\ IF n = Len(HealthRoutes)
           THEN runState' = "EndpointsRegistered" /\ runOutcome' = runOutcome
           ELSE runState' = "Aborted" /\ runOutcome' = "raised"
    /\ UNCHANGED <<shutdown_requested, handlers, tools, listener,
                   awaited, log, selfVars, search_failed, inv>>

\* Mutant of RunServer: the listeners are started before registration.
RunServer_before_registration ==
    /\ runState = "Registering"
    /\ listener' = [l \in Listeners |-> "serving"]
    /\ log' = Append(log, "Starting Sourcegraph MCP server...")
    /\ runState' = "Running"
    /\ UNCHANGED <<shutdown_requested, handlers, tools, routes,
                   awaited, runOutcome, selfVars, search_failed, inv>>

\* Mutant of StartListeners: the coroutines are awaited one after the other,
\* so only the first listener is started.
StartListeners_sequential(ls) ==
    [l \in Listeners |-> IF l \in ls /\ l = "streamable-http" THEN "serving"
                                                               ELSE listener[l]]

\* Lines 209-211 and 190-199: run() logs, builds both listener coroutines
\* and awaits asyncio.gather, which schedules both as tasks.
StartListeners(ls) == [l \in Listeners |-> IF l \in ls THEN "serving" ELSE listener[l]]

RunServer ==
    /\ runState = "EndpointsRegistered"
    /\ listener' = StartListeners(Listeners)
    /\ log' = Append(log, "Starting Sourcegraph MCP server...")
    /\ runState' = "Running"
    /\ UNCHANGED <<shutdown_requested, handlers, tools, routes,
                   awaited, runOutcome, selfVars, search_failed, inv>>

\* A listener task (run_http_async, lines 191-197) ends cleanly or fails.
\* Nothing in run(), _run_server or signal_handler makes it end.
ListenerExit(l) ==
    /\ runState = "Running"
    /\ listener[l] = "serving"
    /\ listener' = [listener EXCEPT ![l] = "exited"]
    /\ UNCHANGED <<shutdown_requested, handlers, tools, routes,
                   runState, awaited, runOutcome, log, selfVars, search_failed, inv>>

ListenerFail(l) ==
    /\ runState = "Running"
    /\ listener[l] = "serving"
    /\ listener' = [listener EXCEPT ![l] = "failed"]
    /\ UNCHANGED <<shutdown_requested, handlers, tools, routes,
                   runState, awaited, runOutcome, log, selfVars, search_failed, inv>>

\* asyncio.gather (line 199) without return_exceptions: the awaiting
\* coroutine resumes with the first exception as soon as one task fails,
\* the other task is left running; it resumes normally once all are done.
GatherRaises(ls) == \E l \in Listeners : ls[l] = "failed"
GatherReturns(ls) == \A l \in Listeners : ls[l] = "exited"

\* What the await of asyncio.gather (line 199) gives run().
gather(ls) ==
    IF GatherRaises(ls) THEN "Exception"
    ELSE IF GatherReturns(ls) THEN "return" ELSE "pending"

\* Mutant of run_try: the listener's error is logged and swallowed.
run_try_swallow(res) ==
    CASE res = "KeyboardInterrupt" ->
            [log |-> <<"Received keyboard interrupt (CTRL+C)", FinalLogMessage>>,
             outcome |-> "returned"]
      [] res = "Exception" ->
            [log |-> <<"Server error", FinalLogMessage>>, outcome |-> "returned"]
      [] res = "return" ->
            [log |-> <<FinalLogMessage>>, outcome |-> "returned"]

\* The try statement of run() (lines 209-218) once the await ended with
\* res: the messages it logs and how run() ends.
run_try(res) ==
    CASE res = "KeyboardInterrupt" ->
            [log |-> <<"Received keyboard interrupt (CTRL+C)", FinalLogMessage>>,
             outcome |-> "returned"]
      [] res = "Exception" ->
            [log |-> <<"Server error", FinalLogMessage>>, outcome |-> "raised"]
      [] res = "return" ->
            [log |-> <<FinalLogMessage>>, outcome |-> "returned"]

EndRun(res) ==
    /\ awaited' = res
    /\ log' = log \o run_try(res).log
    /\ runOutcome' = run_try(res).outcome
    /\ runState' = "Stopped"

\* run() resumes when gather raises or returns.
RunResume ==
    /\ runState = "Running"
    /\ gather(listener) # "pending"
    /\ EndRun(gather(listener))
    /\ UNCHANGED <<shutdown_requested, handlers, tools, routes,
                   listener, selfVars, search_failed, inv>>

\* A KeyboardInterrupt is raised into the await (line 212).
KeyboardInterrupt ==
    /\ runState = "Running"
    /\ EndRun("KeyboardInterrupt")
    /\ UNCHANGED <<shutdown_requested, handlers, tools, routes,
                   listener, selfVars, search_failed, inv>>

(***************************************************************************)
(* Tool invocations.  A request reaches a registered tool through a        *)
(* serving listener; the event loop runs handlers while run() is alive:   *)
(* once run() ends, asyncio.run (line 224) cancels the tasks that remain.  *)
(***************************************************************************)
\* Mutant of CallTool: a backend call runs on the event loop, which accepts
\* no call until it has returned.
CallTool_on_event_loop(i, tool, limit, objective) ==
    /\ runState = "Running"
    /\ listener[i] = "serving"
    /\ \E k \in 1..Len(tools) : tools[k] = tool
    /\ inv[i].pc = "idle"
    /\ \A j \in Listeners : inv[j].pc \notin {"search", "format_results", "get_content"}
    /\ inv' = [inv EXCEPT ![i] =
                 [IdleInv EXCEPT !.pc = "called", !.tool = tool,
                                 !.limit = limit, !.objective = objective,
                                 !.startFlag = shutdown_requested]]
    /\ UNCHANGED <<shutdown_requested, orchVars, selfVars, search_failed>>

\* The transport l calls the function registered under the tool's name.
\* The model carries one request at a time on each transport.
CallTool(i, tool, limit, objective) ==
    /\ runState = "Running"
    /\ listener[i] = "serving"
    /\ \E k \in 1..Len(tools) : tools[k] = tool
    /\ inv[i].pc = "idle"
    /\ inv' = [inv EXCEPT ![i] =
                 [IdleInv EXCEPT !.pc = "called", !.tool = tool,
                                 !.limit = limit, !.objective = objective,
                                 !.startFlag = shutdown_requested]]
    /\ UNCHANGED <<shutdown_requested, orchVars, selfVars, search_failed>>

\* The raw handler's first segment for each tool.
Entry(r, flag, org) ==
    CASE r.tool = "search" -> search_entry(flag, r.limit)
      [] r.tool = "fetch_content" -> fetch_content_entry(flag)
      [] r.tool = "search_prompt_guide" -> search_prompt_guide(flag, org, r.objective)

\* The raw handler's segment after backend call fn ended with out.
Resume(r, fn, out) ==
    CASE fn = "search" -> search_resume(out, r.num_results)
      [] fn = "format_results" -> format_resume(out)
      [] fn = "get_content" -> fetch_content_resume(out)

\* Mutant of Step: a handler that resumes from a backend call finds the flag
\* set and ends as if shutting down.
Step_recheck_after_await(r, res, flag) ==
    IF res.kind = "await"
    THEN [r EXCEPT !.pc = res.fn,
                   !.num_results = IF res.fn = "get_content" THEN 0 ELSE res.limit,
                   !.calls = Append(r.calls, [fn |-> res.fn, limit |-> res.limit])]
    ELSE IF flag /\ r.calls # <<>>
         THEN [r EXCEPT !.pc = "done",
                        !.raw = Raise("ServerShutdownError", ShutdownMessage),
                        !.end = SafeWrapper(r.tool, Raise("ServerShutdownError", ShutdownMessage)),
                        !.flagAtEnd = flag]
         ELSE [r EXCEPT !.pc = "done", !.raw = res,
                        !.end = SafeWrapper(r.tool, res), !.flagAtEnd = flag]

\* The invocation r after its raw handler ran a segment that ended with res:
\* suspended on the backend call it awaits, or done with what the
\* registered function makes of the raw handler's outcome.
Step(r, res, flag) ==
    IF res.kind = "await"
    THEN [r EXCEPT !.pc = res.fn,
                   !.num_results = IF res.fn = "get_content" THEN 0 ELSE res.limit,
                   !.calls = Append(r.calls, [fn |-> res.fn, limit |-> res.limit])]
    ELSE [r EXCEPT !.pc = "done", !.raw = res,
                   !.end = SafeWrapper(r.tool, res), !.flagAtEnd = flag]

\* The wrapper awaits the raw handler, which checks the flag first.
EnterHandler(i) ==
    /\ runState = "Running"
    /\ inv[i].pc = "called"
    /\ LET r == [inv[i] EXCEPT !.seen = IF shutdown_requested THEN "true" ELSE "false"]
       IN inv' = [inv EXCEPT ![i] =
                    Step(r, Entry(r, shutdown_requested, org_guide), shutdown_requested)]
    /\ UNCHANGED <<shutdown_requested, orchVars, selfVars, search_failed>>

\* What a backend call can end with.
BackendOutcomes(fn) ==
    {Err(e) : e \in BackendErrors(fn)} \cup
    (CASE fn = "search" -> {Ok(ListValue(v)) : v \in RawResults}
       [] fn = "format_results" -> {Ok(ListValue(v)) : v \in FormattedResults}
       [] fn = "get_content" -> {Ok(StrValue(v)) : v \in Contents})

\* A backend call run by asyncio.to_thread ends and the handler resumes.
BackendReturn(i, out) ==
    /\ runState = "Running"
    /\ inv[i].pc \in {"search", "format_results", "get_content"}
    /\ out \in BackendOutcomes(inv[i].pc)
    /\ LET r == [inv[i] EXCEPT !.backend = out]
       IN inv' = [inv EXCEPT ![i] =
                    Step(r, Resume(r, inv[i].pc, out), shutdown_requested)]
    /\ search_failed' = IF inv[i].tool = "search" /\ ~out.ok THEN i ELSE search_failed
    /\ UNCHANGED <<shutdown_requested, orchVars, selfVars>>

\* A GET of a registered custom route reaches its handler through a
\* serving listener; the handler builds the response without awaiting.
Probe(i, route) ==
    /\ runState = "Running"
    /\ listener[i] = "serving"
    /\ \E k \in 1..Len(routes) : routes[k] = route
    /\ inv[i].pc = "idle"
    /\ inv' = [inv EXCEPT ![i] =
                 [IdleInv EXCEPT !.pc = "probed", !.tool = route,
                                 !.startFlag = shutdown_requested,
                                 !.flagAtEnd = shutdown_requested,
                                 !.http = Route(route, search_client, content_fetcher)]]
    /\ UNCHANGED <<shutdown_requested, orchVars, selfVars, search_failed>>

\* The transport sends the registered function's result, or the route's
\* response, to the caller.
Respond(i) ==
    /\ runState = "Running"
    /\ inv[i].pc \in {"done", "probed"}
    /\ inv' = [inv EXCEPT ![i] = IdleInv]
    /\ UNCHANGED <<shutdown_requested, orchVars, selfVars, search_failed>>

\* Every step but the delivery of a signal.
Operate ==
    \/ InstallSignalHandlers
    \/ RegisterTools
    \/ RegisterHealthEndpoints
    \/ RunServer
    \/ \E l \in Listeners : ListenerExit(l)
    \/ \E l \in Listeners : ListenerFail(l)
    \/ RunResume
    \/ KeyboardInterrupt
    \/ \E i \in Listeners : \E t \in ToolNames : \E n \in LimitInputs : \E o \in Objectives :
          CallTool(i, t, IF t = "search" THEN n ELSE 0,
                   IF t = "search_prompt_guide" THEN o ELSE "")
    \/ \E i \in Listeners : EnterHandler(i)
    \/ \E i \in Listeners : \E k \in 1..Len(HealthRoutes) : Probe(i, HealthRoutes[k])
    \/ \E i \in Listeners : Respond(i)
    \/ \E i \in Listeners : \E fn \in {"search", "format_results", "get_content"} :
          \E out \in BackendOutcomes(fn) : BackendReturn(i, out)

Next ==
    \/ \E sig \in Signals : Signal(sig)
    \/ Operate

Spec == Init /\ [][Next]_vars

\* The custom routes alone, in the Running state, for every value the two
\* attributes readiness_check reads can have (absent, None, or a client).
ProbeInit ==
    /\ shutdown_requested = FALSE
    /\ handlers = Signals
    /\ tools = ToolTable
    /\ routes = HealthRoutes
    /\ listener = [l \in Listeners |-> "serving"]
    /\ runState = "Running"
    /\ awaited = "pending"
    /\ runOutcome = "none"
    /\ log = <<"Starting Sourcegraph MCP server...">>
    /\ org_guide \in OrgGuides
    /\ environ = [SRC_ENDPOINT |-> "https://example.test"]
    /\ main_error = ""
    /\ config = [sourcegraph_endpoint |-> "https://example.test",
                 sourcegraph_token |-> Token]
    /\ search_client \in Handles
    /\ content_fetcher \in Handles
    /\ search_failed = "none"
    /\ inv = [l \in Listeners |-> IdleInv]

ProbeNext ==
    \/ \E sig \in Signals : Signal(sig)
    \/ \E l \in Listeners : ListenerExit(l)
    \/ \E l \in Listeners : ListenerFail(l)
    \/ \E i \in Listeners : \E k \in 1..Len(HealthRoutes) : Probe(i, HealthRoutes[k])
    \/ \E i \in Listeners : Respond(i)

ProbeSpec == ProbeInit /\ [][ProbeNext]_vars

\* The program from the first line of main(), with the custom routes as the
\* only requests.
BootNext ==
    \/ LoadConfig
    \/ Construct
    \/ InstallSignalHandlers
    \/ RegisterTools
    \/ RegisterHealthEndpoints
    \/ RunServer
    \/ \E sig \in Signals : Signal(sig)
    \/ \E l \in Listeners : ListenerExit(l)
    \/ \E l \in Listeners : ListenerFail(l)
    \/ RunResume
    \/ KeyboardInterrupt
    \/ \E i \in Listeners : \E k \in 1..Len(HealthRoutes) : Probe(i, HealthRoutes[k])
    \/ \E i \in Listeners : Respond(i)

BootSpec == BootInit /\ [][BootNext]_vars

\* The executions in which signals arrive only while run() is Running with
\* both listeners serving.
SignalWhileServing(sig) ==
    /\ runState = "Running"
    /\ \A l \in Listeners : listener[l] = "serving"
    /\ Signal(sig)

DrainNext ==
    \/ \E sig \in Signals : SignalWhileServing(sig)
    \/ Operate

\* The event loop runs every ready callback: run() advances through its
\* startup, a handler that can resume does resume, a finished response is
\* sent, and run() resumes once gather is done.  Nothing obliges a listener
\* to end, a signal or an interrupt to arrive, or a caller to call.
LiveSpec ==
    /\ Init /\ [][DrainNext]_vars
    /\ WF_vars(InstallSignalHandlers)
    /\ WF_vars(RegisterTools)
    /\ WF_vars(RegisterHealthEndpoints)
    /\ WF_vars(RunServer)
    /\ WF_vars(RunResume)
    /\ \A i \in Listeners :
          /\ WF_vars(EnterHandler(i))
          /\ WF_vars(Respond(i))
          /\ WF_vars(\E fn \in {"search", "format_results", "get_content"} :
                        \E out \in BackendOutcomes(fn) : BackendReturn(i, out))

(***************************************************************************)
(* Vocabulary of the properties.                                           *)
(***************************************************************************)
Suspended(i) == inv[i].pc \in {"search", "format_results", "get_content"}
Done(i) == inv[i].pc = "done"
BothServing == \A l \in Listeners : listener[l] = "serving"
Completed(l) == listener[l] \in {"exited", "failed"}
Draining == runState = "Running" /\ shutdown_requested
Occurrences(msg) == Cardinality({k \in 1..Len(log) : log[k] = msg})

\* The shutdown fallbacks and result types of the tool table.
ShutdownFallback(tool) ==
    CASE tool = "search" -> ListValue(<<>>)
      [] tool = "fetch_content" -> StrValue("")
      [] tool = "search_prompt_guide" -> StrValue("Server is shutting down")

DeclaredType(tool) == IF tool = "search" THEN "list" ELSE "str"

(***************************************************************************)
(* C1.  An invocation of a registered tool that starts when the shutdown   *)
(* flag is already true dispatches no backend call at any point and ends   *)
(* by returning that tool's shutdown fallback: the empty list for search,  *)
(* the empty string for fetch_content, "Server is shutting down" for       *)
(* search_prompt_guide.                                                    *)
(***************************************************************************)
C1_ShutdownFallback ==
    \A i \in Listeners :
        (inv[i].pc # "idle" /\ inv[i].startFlag) =>
            /\ inv[i].calls = <<>>
            /\ ~Suspended(i)
            /\ Done(i) => inv[i].end = Return(ShutdownFallback(inv[i].tool))

C1_Witness ==
    /\ Done("sse") /\ inv["sse"].startFlag /\ inv["sse"].tool = "search"
    /\ inv["sse"].end.val.list = <<>>
    /\ Done("streamable-http") /\ inv["streamable-http"].startFlag
    /\ inv["streamable-http"].tool = "fetch_content"

(***************************************************************************)
(* C2.  Every invocation of a registered tool ends by returning a value of *)
(* the tool's declared result type (a list for search, a string for        *)
(* fetch_content and search_prompt_guide), whatever the raw handler ended  *)
(* with; it never ends by raising.                                         *)
(***************************************************************************)
C2_ToolsAreTotal ==
    \A i \in Listeners :
        Done(i) =>
            /\ inv[i].end.kind = "return"
            /\ inv[i].end.val.ty = DeclaredType(inv[i].tool)

C2_Witness ==
    /\ Done("sse") /\ inv["sse"].raw.kind = "raise"
    /\ inv["sse"].raw.exc = "SearchError" /\ inv["sse"].end.kind = "return"
    /\ Done("streamable-http") /\ inv["streamable-http"].raw.exc = "ContentFetchError"
    /\ inv["streamable-http"].end.val.ty = "str"

(***************************************************************************)
(* C3.  Once a termination signal has been handled while run() is Running  *)
(* with both listeners serving, run() eventually reaches Stopped.          *)
(***************************************************************************)
C3_SignalLeadsToStopped ==
    (Draining /\ BothServing) ~> (runState = "Stopped")

(***************************************************************************)
(* C4.  An invocation whose shutdown check read the flag as false and      *)
(* whose backend calls then succeed returns the backend's value, not the   *)
(* shutdown fallback, also when the flag has become true while it was in   *)
(* flight.                                                                 *)
(***************************************************************************)
C4_InFlightFinishes ==
    \A i \in Listeners :
        (Done(i) /\ inv[i].seen = "false" /\ inv[i].backend.ok) =>
            /\ inv[i].end = Return(inv[i].backend.val)
            /\ inv[i].end.val # ShutdownFallback(inv[i].tool)

C4_Witness ==
    \E i \in Listeners :
        /\ Done(i) /\ inv[i].tool = "search"
        /\ inv[i].seen = "false" /\ ~inv[i].startFlag /\ inv[i].flagAtEnd
        /\ Len(inv[i].calls) = 2
        /\ inv[i].backend.ok /\ inv[i].end.val.list # <<>>

(***************************************************************************)
(* C5.  The shutdown flag is false initially, never goes from true to      *)
(* false, and changes only in a step of the signal handler.                *)
(***************************************************************************)
C5_FlagMonotonic ==
    /\ ~shutdown_requested
    /\ [][/\ shutdown_requested => shutdown_requested'
          /\ shutdown_requested' # shutdown_requested =>
                \E sig \in Signals : Signal(sig)]_vars

C5_Witness ==
    /\ shutdown_requested
    /\ \E i \in Listeners : Done(i) /\ ~inv[i].startFlag /\ inv[i].flagAtEnd
    /\ \E l \in Listeners : listener[l] = "exited"

(***************************************************************************)
(* C6.  When run() has stopped with a listener's error (the final message  *)
(* is logged and the error re-raised), both listener tasks have completed. *)
(***************************************************************************)
C6_StoppedOnlyWhenBothDone ==
    (runState = "Stopped" /\ runOutcome = "raised") =>
        \A l \in Listeners : Completed(l)

(***************************************************************************)
(* C7.  When the await in run() ends with a listener's error, run() ends   *)
(* by raising; when it ends with a KeyboardInterrupt, run() ends normally; *)
(* either way the final shutdown message is logged exactly once, as the    *)
(* last message, and not before run() ends.                                *)
(***************************************************************************)
C7_RunEnds ==
    /\ runState = "Stopped" =>
          /\ awaited = "Exception" <=> runOutcome = "raised"
          /\ awaited = "Exception" => \E l \in Listeners : listener[l] = "failed"
          /\ awaited = "KeyboardInterrupt" => runOutcome = "returned"
          /\ Occurrences(FinalLogMessage) = 1
          /\ log[Len(log)] = FinalLogMessage
    /\ runState # "Stopped" => Occurrences(FinalLogMessage) = 0

C7_Witness ==
    /\ runState = "Stopped"
    /\ awaited = "Exception"
    /\ runOutcome = "raised"
    /\ Occurrences(FinalLogMessage) = 1

(***************************************************************************)
(* C8.  A listener is started only after both signal handlers are          *)
(* installed and all three tools and both health routes are registered;    *)
(* when registration fails no listener is started.                         *)
(***************************************************************************)
C8_RegisterBeforeListen ==
    /\ (\E l \in Listeners : listener[l] # "unstarted") =>
          /\ handlers = {"SIGINT", "SIGTERM"}
          /\ tools = <<"search", "search_prompt_guide", "fetch_content">>
          /\ routes = <<"/health", "/ready">>
    /\ runState = "Aborted" => \A l \in Listeners : listener[l] = "unstarted"
    /\ tools # <<>> => handlers = {"SIGINT", "SIGTERM"}

C8_Witness ==
    /\ runState = "Running"
    /\ BothServing
    /\ Len(tools) = 3
    /\ Len(routes) = 2

(***************************************************************************)
(* C9.  The limit passed to the backend search call and to format_results  *)
(* lies in 1..100: it is 1 for a limit below 1, 100 for a limit above 100, *)
(* and the limit itself otherwise.                                         *)
(***************************************************************************)
C9_LimitClamped ==
    \A i \in Listeners :
        \A k \in 1..Len(inv[i].calls) :
            inv[i].calls[k].fn \in {"search", "format_results"} =>
                LET given == inv[i].limit
                    passed == inv[i].calls[k].limit
                IN /\ passed \in 1..100
                   /\ given < 1 => passed = 1
                   /\ given > 100 => passed = 100
                   /\ given \in 1..100 => passed = given

C9_Witness ==
    /\ inv["sse"].limit = 0
    /\ inv["sse"].calls = <<[fn |-> "search", limit |-> 1],
                            [fn |-> "format_results", limit |-> 1]>>
    /\ inv["streamable-http"].limit = 101
    /\ Len(inv["streamable-http"].calls) = 2
    /\ inv["streamable-http"].calls[2].limit = 100

(***************************************************************************)
(* C10.  A fetch_content invocation whose shutdown check read the flag as  *)
(* false ends by returning: the invalid-arguments string when the backend  *)
(* raised ValueError, the generic error string when it raised anything     *)
(* else, and the backend's text when it succeeded.                         *)
(***************************************************************************)
C10_FetchContentResult ==
    \A i \in Listeners :
        (Done(i) /\ inv[i].tool = "fetch_content" /\ inv[i].seen = "false") =>
            /\ inv[i].end.kind = "return"
            /\ inv[i].backend.exc = "ValueError" =>
                  inv[i].end.val =
                      StrValue("Invalid arguments: path or repository does not exist")
            /\ inv[i].backend.exc \notin {"none", "ValueError"} =>
                  inv[i].end.val = StrValue("Error fetching content")
            /\ inv[i].backend.ok => inv[i].end.val = inv[i].backend.val

C10_Witness ==
    /\ Done("sse") /\ inv["sse"].tool = "fetch_content"
    /\ inv["sse"].backend.exc = "ValueError"
    /\ inv["sse"].end.val.str = "Invalid arguments: path or repository does not exist"
    /\ Done("streamable-http") /\ inv["streamable-http"].tool = "fetch_content"
    /\ inv["streamable-http"].backend.exc = "Exception"
    /\ inv["streamable-http"].end.val.str = "Error fetching content"

(***************************************************************************)
(* C11.  A search whose backend call fails, in the search step or in the   *)
(* formatting step, ends by returning the empty list, after one dispatch   *)
(* of each step at most (nothing is retried), in a step that leaves the    *)
(* shutdown flag, the client handles, the listeners and run() as they      *)
(* were; a search whose backend calls succeed returns the formatted        *)
(* results, also when an earlier search of the process has failed.         *)
(***************************************************************************)
C11_SearchFailureIsolated ==
    [][\A i \in Listeners :
          (inv[i].pc \in {"search", "format_results"} /\ inv'[i].pc = "done") =>
              LET r == inv'[i]
              IN /\ ~r.backend.ok =>
                       /\ r.end = Return(ListValue(<<>>))
                       /\ UNCHANGED <<shutdown_requested, search_client,
                                      content_fetcher, listener, runState>>
                       /\ r.calls \in {<<[fn |-> "search", limit |-> r.num_results]>>,
                                       <<[fn |-> "search", limit |-> r.num_results],
                                         [fn |-> "format_results", limit |-> r.num_results]>>}
                 /\ r.backend.ok =>
                       /\ r.end = Return(r.backend.val)
                       /\ r.end.val.list \in FormattedResults
                       /\ Len(r.calls) = 2]_vars

\* A search succeeds on the transport on which the last failed search ran,
\* hence after it, with the flag still false and both listeners serving.
C11_Witness ==
    \E i \in Listeners :
        /\ search_failed = i
        /\ Done(i) /\ inv[i].tool = "search"
        /\ inv[i].backend.ok /\ inv[i].end.val.list = <<70, 80, 90>>
        /\ ~shutdown_requested /\ BothServing

(***************************************************************************)
(* C12.  A GET of /health through a serving listener is answered with      *)
(* status code 200 and status "ok", whatever the shutdown flag and the two *)
(* client handles are; the step dispatches no backend call and changes     *)
(* nothing but the request's own record.                                   *)
(***************************************************************************)
C12_HealthAlwaysOk ==
    [][\A i \in Listeners :
          (inv[i].pc = "idle" /\ inv'[i].pc = "probed" /\ inv'[i].tool = "/health") =>
              /\ listener[i] = "serving"
              /\ inv'[i].http.status_code = 200
              /\ inv'[i].http.status = "ok"
              /\ inv'[i].calls = <<>>
              /\ UNCHANGED <<shutdown_requested, orchVars, selfVars, search_failed>>
              /\ \A j \in Listeners \ {i} : inv'[j] = inv[j]]_vars

\* /health answers 200 with the flag set and the search client missing.
C12_Witness ==
    \E i \in Listeners :
        /\ inv[i].pc = "probed" /\ inv[i].tool = "/health"
        /\ inv[i].startFlag /\ shutdown_requested
        /\ search_client = "absent" /\ content_fetcher = "None"
        /\ inv[i].http.status_code = 200

(***************************************************************************)
(* C13.  A GET of /ready is answered with 200 and status "ready" exactly   *)
(* when both the search client and the content fetcher are present and not *)
(* None, and with 503 otherwise, the reason naming the search client when  *)
(* it is missing and the content fetcher only when the search client is    *)
(* there; the answer is a function of the two handles alone, so the flag   *)
(* does not enter it, and no backend call is dispatched.                   *)
(***************************************************************************)
C13_ReadyIffHandles ==
    \A i \in Listeners :
        (inv[i].pc = "probed" /\ inv[i].tool = "/ready") =>
            LET ready == search_client = "client" /\ content_fetcher = "client"
                http == inv[i].http
            IN /\ (http.status_code = 200 /\ http.status = "ready") <=> ready
               /\ ~ready => http.status_code = 503 /\ http.status = "not_ready"
               /\ search_client # "client" => http.reason = "search_client_unavailable"
               /\ (search_client = "client" /\ content_fetcher # "client") =>
                      http.reason = "content_fetcher_unavailable"
               /\ inv[i].calls = <<>>
               /\ \A j \in Listeners :
                      (inv[j].pc = "probed" /\ inv[j].tool = "/ready") =>
                          inv[j].http = http

\* Both handles missing: /ready names the search client, before the signal
\* on one transport and after it on the other.
C13_Witness ==
    /\ search_client = "None" /\ content_fetcher = "absent"
    /\ inv["sse"].pc = "probed" /\ inv["sse"].tool = "/ready"
    /\ ~inv["sse"].startFlag
    /\ inv["streamable-http"].pc = "probed" /\ inv["streamable-http"].tool = "/ready"
    /\ inv["streamable-http"].startFlag
    /\ inv["sse"].http.status_code = 503
    /\ inv["sse"].http.reason = "search_client_unavailable"
    /\ inv["streamable-http"].http = inv["sse"].http

C15_ListenersConcurrent ==
    /\ \A l \in Listeners :
          listener[l] = "unstarted" => \A m \in Listeners : listener[m] = "unstarted"
    /\ runState = "Running" => \A l \in Listeners : listener[l] # "unstarted"

\* Both listeners serve and each carries a request waiting for the backend.
C15_Witness ==
    /\ runState = "Running"
    /\ BothServing
    /\ inv["streamable-http"].pc = "get_content"
    /\ inv["sse"].pc = "format_results"

C17_PromptGuideText ==
    \A i \in Listeners :
        (Done(i) /\ inv[i].tool = "search_prompt_guide" /\ inv[i].seen = "false") =>
            LET guide == codesearch_guide
                         \o "\nGiven this guide create a Sourcegraph query for "
                         \o inv[i].objective
                         \o " and call the search tool accordingly."
            IN /\ org_guide = "" => inv[i].end = Return(StrValue(guide))
               /\ org_guide # "" =>
                     inv[i].end = Return(StrValue(org_guide \o "\n\n" \o guide))
               /\ \A j \in Listeners :
                     (/\ Done(j) /\ inv[j].tool = "search_prompt_guide"
                      /\ inv[j].seen = "false"
                      /\ inv[j].objective = inv[i].objective) =>
                         inv[j].end = inv[i].end

\* Two invocations with the same objective and an organization guide.
C17_Witness ==
    /\ org_guide = "org guide"
    /\ \A i \in Listeners :
          /\ Done(i) /\ inv[i].tool = "search_prompt_guide"
          /\ inv[i].objective = "refactor auth"
          /\ inv[i].end.val.str =
                "org guide\n\ncodesearch guide\nGiven this guide create a Sourcegraph query for refactor auth and call the search tool accordingly."

(***************************************************************************)
(* C18.  In every invocation of search or fetch_content the shutdown check *)
(* comes before any backend dispatch: an invocation that has dispatched a  *)
(* backend call (search, format_results or get_content) or waits for one   *)
(* has read the flag as false before, one that has not yet checked has     *)
(* dispatched nothing, and one that read the flag as true dispatches       *)
(* nothing at all.                                                         *)
(***************************************************************************)
C18_CheckBeforeDispatch ==
    \A i \in Listeners :
        /\ (inv[i].calls # <<>> \/ Suspended(i)) => inv[i].seen = "false"
        /\ inv[i].seen = "unchecked" => inv[i].calls = <<>> /\ ~Suspended(i)
        /\ inv[i].seen = "true" =>
              /\ inv[i].calls = <<>>
              /\ Done(i)
              /\ inv[i].backend = NoCall

\* After the signal: a search that checked before it is at its second
\* backend call, and a fetch_content that checked after it has ended
\* without any.
C18_Witness ==
    /\ shutdown_requested
    /\ inv["sse"].tool = "search" /\ inv["sse"].pc = "format_results"
    /\ inv["sse"].seen = "false" /\ Len(inv["sse"].calls) = 2
    /\ inv["streamable-http"].tool = "fetch_content"
    /\ inv["streamable-http"].seen = "true"
    /\ Done("streamable-http") /\ inv["streamable-http"].calls = <<>>

(***************************************************************************)
(* C19.  An invocation of a registered tool that was called with the       *)
(* shutdown flag true ends with the tool's shutdown fallback without the   *)
(* raw handler having been invoked: the flag was not read by a raw         *)
(* handler and no raw handler outcome exists.                              *)
(***************************************************************************)
C19_AdapterChecksFlag ==
    \A i \in Listeners :
        (Done(i) /\ inv[i].startFlag) =>
            /\ inv[i].end = Return(ShutdownFallback(inv[i].tool))
            /\ inv[i].seen = "unchecked"
            /\ inv[i].raw = NoOutcome

(***************************************************************************)
(* C19, amended.  An invocation of a registered tool that was called with  *)
(* the shutdown flag true does invoke the raw handler: the raw handler     *)
(* reads the flag as true and raises ServerShutdownError before any        *)
(* backend dispatch, and the wrapper, which does not look at the flag,     *)
(* catches that error and returns the tool's shutdown fallback.            *)
(***************************************************************************)
C19_RawHandlerDeclines ==
    \A i \in Listeners :
        (Done(i) /\ inv[i].startFlag) =>
            /\ inv[i].seen = "true"
            /\ inv[i].raw = Raise("ServerShutdownError", "Server is shutting down")
            /\ inv[i].calls = <<>>
            /\ inv[i].end = Return(ShutdownFallback(inv[i].tool))

C19_Witness ==
    \E i \in Listeners :
        /\ Done(i) /\ inv[i].startFlag
        /\ inv[i].tool = "search_prompt_guide"
        /\ inv[i].raw.exc = "ServerShutdownError"
        /\ inv[i].end.val.str = "Server is shutting down"

(***************************************************************************)
(* C20.  Running ends as soon as one listener terminates: whenever a       *)
(* listener has exited or failed while the other is still serving and no   *)
(* signal has been delivered, the await in run() is over and run() can     *)
(* proceed to its shutdown.                                                *)
(***************************************************************************)
C20_RunningEndsWithFirstListener ==
    (/\ runState = "Running"
     /\ ~shutdown_requested
     /\ \E l \in Listeners : Completed(l)
     /\ \E l \in Listeners : listener[l] = "serving") =>
        ENABLED RunResume

====
